---- MODULE Spec2Model ----
(***************************************************************************)
(* Model of the TAR / TAR+gzip archive engine of parinck/archiver          *)
(* (src/archive/tar.go, src/archive/targz.go).                             *)
(*                                                                         *)
(* Strings (file names, entry names, paths) are sequences of tokens: the   *)
(* separator "/", the elements "." and "..", extension chunks such as      *)
(* ".tar", and plain chunks.  The host is a Unix host: filepath and path   *)
(* agree and filepath.ToSlash changes nothing.                             *)
(*                                                                         *)
(* Operators take the values they work on as parameters rather than        *)
(* naming them in LET, which keeps TLC's coverage bookkeeping small.       *)
(***************************************************************************)
EXTENDS Integers, Sequences, FiniteSets, TLC

VARIABLES t, arch, disk, pc, cur, last, prev, log, nops, nfile

vars == <<t, arch, disk, pc, cur, last, prev, log, nops, nfile>>

(***************************************************************************)
(* Bounds of the model.                                                    *)
(***************************************************************************)
\* calls made on the handle in one behaviour when all of them are calls of the
\* stream interface (Create, Open, Write, Read, Close)
MaxOps == 4
\* calls made on the handle in one behaviour when some of them work on archive
\* files (Archive, Unarchive, Walk, Extract)
MaxCalls == 2
\* depth at which the runtime stops a runaway recursion (stack exhaustion)
MaxStack == 2

(***************************************************************************)
(* Strings and the path functions of package path / path/filepath.         *)
(***************************************************************************)
Sep == "/"
Dot == <<".">>
DotDot == <<"..">>

\* strings.HasSuffix
HasSuffix(s, suf) ==
    /\ Len(suf) <= Len(s)
    /\ SubSeq(s, Len(s) - Len(suf) + 1, Len(s)) = suf

\* strings.HasPrefix
HasPrefix(s, pre) ==
    /\ Len(pre) <= Len(s)
    /\ SubSeq(s, 1, Len(pre)) = pre

IsRooted(s) == Len(s) > 0 /\ s[1] = Sep

\* the largest and the smallest member of a set of indices, 0 for the empty set
MaxOf(S) == IF S = {} THEN 0 ELSE CHOOSE i \in S : \A j \in S : j <= i
MinOf(S) == IF S = {} THEN 0 ELSE CHOOSE i \in S : \A j \in S : i <= j

\* index of the last and of the first separator of s, 0 when there is none
LastSlash(s) == MaxOf({i \in 1..Len(s) : s[i] = Sep})
FirstSlash(s) == MinOf({i \in 1..Len(s) : s[i] = Sep})

\* the non-empty elements of s between separators, in order
RECURSIVE Components(_)
SplitAt(s, i) ==
    IF i = 0 THEN <<s>>
    ELSE IF i = 1 THEN Components(Tail(s))
    ELSE <<SubSeq(s, 1, i - 1)>> \o Components(SubSeq(s, i + 1, Len(s)))
Components(s) == IF s = <<>> THEN <<>> ELSE SplitAt(s, FirstSlash(s))

\* elements joined by single separators
RECURSIVE JoinComps(_)
JoinComps(cs) ==
    IF cs = <<>> THEN <<>>
    ELSE IF Len(cs) = 1 THEN cs[1]
    ELSE cs[1] \o <<Sep>> \o JoinComps(Tail(cs))

\* the element stack of path.Clean after element c: "." is dropped, ".." pops
\* an element, is dropped at the root, or stays
CleanPush(acc, c, rooted) ==
    IF c = Dot THEN acc
    ELSE IF c # DotDot THEN Append(acc, c)
    ELSE IF acc # <<>> /\ acc[Len(acc)] # DotDot THEN SubSeq(acc, 1, Len(acc) - 1)
    ELSE IF rooted THEN acc
    ELSE Append(acc, c)

RECURSIVE CleanComps(_, _, _)
CleanComps(rest, acc, rooted) ==
    IF rest = <<>> THEN acc
    ELSE CleanComps(Tail(rest), CleanPush(acc, Head(rest), rooted), rooted)

\* the cleaned path of its elements
CleanJoin(cs, rooted) ==
    IF rooted THEN <<Sep>> \o JoinComps(cs)
    ELSE IF cs = <<>> THEN Dot
    ELSE JoinComps(cs)

\* path.Clean / filepath.Clean
Clean(s) == CleanJoin(CleanComps(Components(s), <<>>, IsRooted(s)), IsRooted(s))

\* path.Join / filepath.Join of two elements: empty elements are ignored
Join(a, b) ==
    IF a = <<>> /\ b = <<>> THEN <<>>
    ELSE Clean(IF a = <<>> THEN b ELSE IF b = <<>> THEN a ELSE a \o <<Sep>> \o b)

\* path.Dir
Dir(s) == Clean(SubSeq(s, 1, LastSlash(s)))

\* s without its trailing separators
RECURSIVE StripTrailing(_)
StripTrailing(s) ==
    IF s # <<>> /\ s[Len(s)] = Sep
    THEN StripTrailing(SubSeq(s, 1, Len(s) - 1))
    ELSE s

\* what follows the last separator of u, "/" when that is nothing
LastElement(u) ==
    IF LastSlash(u) = Len(u) THEN <<Sep>> ELSE SubSeq(u, LastSlash(u) + 1, Len(u))

\* path.Base / filepath.Base
Base(s) == IF s = <<>> THEN Dot ELSE LastElement(StripTrailing(s))

\* length of the longest common prefix of two element sequences
RECURSIVE CommonLen(_, _)
CommonLen(a, b) ==
    IF a = <<>> \/ b = <<>> \/ Head(a) # Head(b) THEN 0
    ELSE 1 + CommonLen(Tail(a), Tail(b))

\* filepath.Rel on the elements bc of the base and tc of the target, k of them
\* shared: up from the base, then down to the target
RelComps(bc, tc, k) ==
    IF k < Len(bc) /\ bc[k + 1] = DotDot
    THEN [err |-> TRUE, s |-> <<>>]
    ELSE [err |-> FALSE,
          s |-> JoinComps([i \in 1..(Len(bc) - k) |-> DotDot]
                          \o SubSeq(tc, k + 1, Len(tc)))]

\* filepath.Rel on a cleaned base and target
RelClean(base, targ) ==
    IF targ = base THEN [err |-> FALSE, s |-> Dot]
    ELSE IF (base # Dot /\ IsRooted(base)) # IsRooted(targ)
    THEN [err |-> TRUE, s |-> <<>>]
    ELSE IF base = Dot
    THEN RelComps(<<>>, Components(targ), 0)
    ELSE RelComps(Components(base), Components(targ),
                  CommonLen(Components(base), Components(targ)))

\* filepath.Rel: [err, s]
Rel(basepath, targpath) == RelClean(Clean(basepath), Clean(targpath))

(***************************************************************************)
(* The host file system: disk maps an absolute clean path to its node.     *)
(* Archive files live beside it in arch, keyed by their file name.         *)
(***************************************************************************)
Cwd == <<Sep, "w">>

\* filepath.Abs
Abs(p) == Clean(IF IsRooted(p) THEN p ELSE Cwd \o <<Sep>> \o p)

DirNode == [kind |-> "dir", data |-> "", link |-> <<>>]
RegNode(data) == [kind |-> "reg", data |-> data, link |-> <<>>]
LinkNode(target) == [kind |-> "symlink", data |-> "", link |-> target]

Put(d, p, node) == [q \in DOMAIN d \cup {p} |-> IF q = p THEN node ELSE d[q]]

\* the absolute paths made of the first elements of cs
PrefixesOf(cs) == {<<Sep>> \o JoinComps(SubSeq(cs, 1, k)) : k \in 1..Len(cs)}

\* the absolute paths of p and of each of its ancestors, below the root
Prefixes(p) == PrefixesOf(Components(Abs(p)))

\* os.MkdirAll of the paths ps, a path and its ancestors: [err, disk]
MkdirPaths(d, ps) ==
    IF \E q \in ps : q \in DOMAIN d /\ d[q].kind # "dir"
    THEN [err |-> TRUE, disk |-> d]
    ELSE [err |-> FALSE,
          disk |-> [q \in DOMAIN d \cup ps |-> IF q \in DOMAIN d THEN d[q] ELSE DirNode]]

\* os.MkdirAll: [err, disk]
OsMkdirAll(d, p) == MkdirPaths(d, Prefixes(p))

(***************************************************************************)
(* Helpers of the package that tar.go calls (archiver.go).                 *)
(***************************************************************************)
\* fileExists, for a path of the directory tree
fileExists(d, p) == Abs(p) \in DOMAIN d

\* mkdir: the directory and its missing ancestors
mkdir(d, p) == OsMkdirAll(d, p)

\* the file at absolute path p once its ancestors are made (m)
CreateFileAt(m, p, data) ==
    IF m.err THEN m
    ELSE IF p \in DOMAIN m.disk /\ m.disk[p].kind = "dir"
    THEN [err |-> TRUE, disk |-> m.disk]
    ELSE [err |-> FALSE, disk |-> Put(m.disk, p, RegNode(data))]

\* writeNewFile: the missing ancestors, then the file with the entry's content
writeNewFile(d, to, data) == CreateFileAt(OsMkdirAll(d, Dir(Abs(to))), Abs(to), data)

\* the symbolic link at absolute path p once its ancestors are made (m)
SymlinkAt(m, p, target) ==
    IF m.err \/ p \in DOMAIN m.disk
    THEN [err |-> TRUE, disk |-> m.disk]
    ELSE [err |-> FALSE, disk |-> Put(m.disk, p, LinkNode(target))]

\* writeNewSymbolicLink: a link at fpath holding target verbatim
writeNewSymbolicLink(d, fpath, target) ==
    SymlinkAt(OsMkdirAll(d, Dir(Abs(fpath))), Abs(fpath), target)

\* the hard link at absolute path p to the file at absolute path q
HardlinkAt(m, p, q) ==
    IF m.err \/ p \in DOMAIN m.disk \/ q \notin DOMAIN m.disk
    THEN [err |-> TRUE, disk |-> m.disk]
    ELSE IF m.disk[q].kind = "dir"
    THEN [err |-> TRUE, disk |-> m.disk]
    ELSE [err |-> FALSE, disk |-> Put(m.disk, p, m.disk[q])]

\* writeNewHardLink: a second name at fpath for the existing file target
writeNewHardLink(d, fpath, target) ==
    HardlinkAt(OsMkdirAll(d, Dir(Abs(fpath))), Abs(fpath), Abs(target))

\* within on cleaned paths
WithinClean(parent, sub) == sub = parent \/ HasPrefix(sub, parent \o <<Sep>>)

\* within: sub is parent or lexically nested under it
within(parent, sub) == WithinClean(Clean(parent), Clean(sub))

\* the first element of a path
FirstOf(cs) == IF cs = <<>> THEN <<>> ELSE cs[1]
TopLevel(p) == FirstOf(Components(p))

\* multipleTopLevels: more than one distinct first element
multipleTopLevels(paths) ==
    Cardinality({TopLevel(paths[i]) : i \in 1..Len(paths)}) > 1

\* folderNameFromFileName: the base name up to its first extension chunk
IsExt(tok) == tok \in {".tar", ".gz", ".tgz", ".zip", ".txt"}
UpToFirst(base, dots) ==
    IF dots = {} THEN base ELSE SubSeq(base, 1, MinOf(dots) - 1)
BeforeExt(base) == UpToFirst(base, {i \in 1..Len(base) : IsExt(base[i])})
folderNameFromFileName(filename) == BeforeExt(Base(filename))

(***************************************************************************)
(* Archive files and TAR streams.  An archive file holds the entries       *)
(* written to it, the number of end-of-archive markers that follow them,   *)
(* and whether its bytes are gzip-framed.  from records the source paths   *)
(* of the Archive call that produced it.                                   *)
(***************************************************************************)
UBuf == <<"buf">>
XTar == <<"x", ".tar">>
PTar == <<"p", ".tar">>
QTarGz == <<"q", ".tar", ".gz">>
YTgz == <<"y", ".tgz">>
NZip == <<"n", ".zip">>
LTar == <<"l", ".tar">>
ArchNames == {UBuf, XTar, PTar, QTarGz, YTgz, NZip, LTar}

NoFile == [exists |-> FALSE, gz |-> FALSE, ents |-> <<>>, eoa |-> 0, from |-> <<>>]
EmptyFile == [exists |-> TRUE, gz |-> FALSE, ents |-> <<>>, eoa |-> 0, from |-> <<>>]

DirEntry(name) == [name |-> name, flag |-> "dir", data |-> "", link |-> <<>>]
RegEntry(name, data) == [name |-> name, flag |-> "reg", data |-> data, link |-> <<>>]
SymlinkEntry(name, linkname) ==
    [name |-> name, flag |-> "symlink", data |-> "", link |-> linkname]
HardlinkEntry(name, linkname) ==
    [name |-> name, flag |-> "link", data |-> "", link |-> linkname]
\* an entry whose type flag the package does not know
OddEntry(name) == [name |-> name, flag |-> "odd", data |-> "", link |-> <<>>]

\* the entries of the archives that exist before the first call
SampleEntries ==
    << DirEntry(<<"a", Sep, "b", Sep>>),
       RegEntry(<<"a", Sep, "b", Sep, "c", ".txt">>, "c4"),
       RegEntry(<<"a", Sep, "b", Sep, "d", ".txt">>, "c5"),
       RegEntry(<<"a", Sep, "e", ".txt">>, "c6"),
       RegEntry(<<"k", ".txt">>, "c7") >>

\* the entries of the existing archive that holds links: a file, a symbolic
\* link to a path two levels above its own directory, a hard link to the
\* file, and an entry of unknown type
LinkEntries ==
    << RegEntry(<<"t", ".txt">>, "c9"),
       SymlinkEntry(<<"s", Sep, "out">>, <<"..", Sep, "..", Sep, "x">>),
       HardlinkEntry(<<"s", Sep, "hl">>, <<"t", ".txt">>),
       OddEntry(<<"z">>) >>

\* os.Create on an archive file name: created or truncated
OsCreate(a, name) == [a EXCEPT ![name] = EmptyFile]

\* tar.NewReader over an archive file; wrap tells what stands between the
\* file's bytes and the reader: "raw" (nothing) or "gzip" (a gzip decoder)
NilR == [open |-> FALSE, in |-> <<>>, pos |-> 0, err |-> "nil", wrap |-> "raw"]
NewReader(name, wrap) ==
    [open |-> TRUE, in |-> name, pos |-> 0, err |-> "nil", wrap |-> wrap]

\* tar.Reader.Next: [r, err, idx]; an error is kept by the reader
TrNext(a, r) ==
    IF r.err # "nil" THEN [r |-> r, err |-> r.err, idx |-> 0]
    ELSE IF ~a[r.in].exists \/ a[r.in].gz # (r.wrap = "gzip")
         THEN [r |-> [r EXCEPT !.err = "ErrHeader"], err |-> "ErrHeader", idx |-> 0]
    ELSE IF r.pos < Len(a[r.in].ents)
         THEN [r |-> [r EXCEPT !.pos = r.pos + 1], err |-> "nil", idx |-> r.pos + 1]
    ELSE [r |-> [r EXCEPT !.err = "EOF"], err |-> "EOF", idx |-> 0]

\* tar.NewWriter over an archive file; wrap as for the reader
NilW == [open |-> FALSE, out |-> <<>>, wrap |-> "raw"]
NewWriter(name, wrap) == [open |-> TRUE, out |-> name, wrap |-> wrap]

\* tar.Writer.WriteHeader and the copy of the content
TwWrite(a, w, e) ==
    [a EXCEPT ![w.out].ents = Append(@, e), ![w.out].gz = (w.wrap = "gzip")]

\* tar.Writer.Close: the end-of-archive markers
TwClose(a, w) == [a EXCEPT ![w.out].eoa = @ + 1]

(***************************************************************************)
(* The handle.  t is the Tar value; the compressed handle TarGz embeds a   *)
(* pointer to it, so both facades act on the same t.                       *)
(***************************************************************************)
Handles == {"tar", "targz"}

NoCall ==
    [op |-> "none", h |-> "tar", src |-> <<>>, dst |-> <<>>, dst0 |-> <<>>,
     target |-> <<>>, tdp |-> <<>>, tr |-> NilR, visited |-> 0, wrote |-> <<>>,
     errs |-> 0, err |-> "nil", fresh |-> FALSE, depth |-> 0, vis |-> "none",
     ans |-> "none"]

InitDisk ==
    [q \in {Cwd, Cwd \o <<Sep, "dir">>, Cwd \o <<Sep, "dir", Sep, "sub">>,
            Cwd \o <<Sep, "dir", Sep, "f", ".txt">>,
            Cwd \o <<Sep, "dir", Sep, "sub", Sep, "g", ".txt">>,
            Cwd \o <<Sep, "h", ".txt">>} |->
        IF q = Cwd \o <<Sep, "dir", Sep, "f", ".txt">> THEN RegNode("c1")
        ELSE IF q = Cwd \o <<Sep, "dir", Sep, "sub", Sep, "g", ".txt">> THEN RegNode("c2")
        ELSE IF q = Cwd \o <<Sep, "h", ".txt">> THEN RegNode("c3")
        ELSE DirNode]

InitArch ==
    [n \in ArchNames |->
        IF n = PTar THEN [EmptyFile EXCEPT !.ents = SampleEntries, !.eoa = 1]
        ELSE IF n = QTarGz
             THEN [EmptyFile EXCEPT !.ents = SampleEntries, !.eoa = 1, !.gz = TRUE]
        ELSE IF n = LTar THEN [EmptyFile EXCEPT !.ents = LinkEntries, !.eoa = 1]
        ELSE IF n = UBuf THEN EmptyFile
        ELSE NoFile]

Init ==
    /\ \E ow \in BOOLEAN, im \in BOOLEAN, ce \in BOOLEAN :
          t = [OverwriteExisting |-> ow, MkdirAll |-> TRUE,
               ImplicitTopLevelFolder |-> im, ContinueOnError |-> ce,
               tw |-> NilW, tr |-> NilR,
               writerWrapFn |-> "nil", readerWrapFn |-> "nil",
               cleanupWrapFn |-> "nil"]
    /\ arch = InitArch
    /\ disk = InitDisk
    /\ pc = "idle"
    /\ cur = NoCall
    /\ last = NoCall
    /\ prev = "none"
    /\ log = <<>>
    /\ nops = 0
    /\ nfile = 0

\* a call of the stream interface may start: the handle is used by one caller
\* at a time
CanCall ==
    /\ pc = "idle"
    /\ \/ nops < MaxCalls
       \/ nfile = 0 /\ nops < MaxOps

\* a call that works on archive files may start
CanCallFile == pc = "idle" /\ nops < MaxCalls

\* a call that returns at once
Return(op, h, err) ==
    /\ pc' = "returned"
    /\ cur' = NoCall
    /\ last' = [NoCall EXCEPT !.op = op, !.h = h, !.err = err]
    /\ nops' = nops + 1
    /\ nfile' = nfile
    /\ prev' = prev

(***************************************************************************)
(* targz.go: the wrap functions.                                           *)
(***************************************************************************)
wrapWriter(tt) ==
    [tt EXCEPT !.writerWrapFn = "gzipWriter", !.cleanupWrapFn = "gzwClose"]

wrapReader(tt) ==
    [tt EXCEPT !.readerWrapFn = "gzipReader", !.cleanupWrapFn = "gzrClose"]

(***************************************************************************)
(* tar.go: Create, Write, Open, Read, Close as pure steps on (t, arch).    *)
(***************************************************************************)
\* a Create that binds a fresh writer whatever is bound
TarCreateRebinds(tt, out) ==
    [t |-> [tt EXCEPT !.tw = NewWriter(out, "raw")], err |-> "nil"]

\* Tar.Create: [t, err]
TarCreate(tt, out) ==
    IF tt.tw.open THEN [t |-> tt, err |-> "alreadyOpen"]
    ELSE [t |-> [tt EXCEPT !.tw = NewWriter(out, "raw")], err |-> "nil"]

\* Tar.Open: [t, err]
TarOpen(tt, in) ==
    IF tt.tr.open THEN [t |-> tt, err |-> "alreadyOpen"]
    ELSE [t |-> [tt EXCEPT !.tr = NewReader(in, "raw")], err |-> "nil"]

\* the header Tar.Write makes of a file value: a directory's name gets a
\* trailing separator
HeaderOf(f) ==
    IF f.isDir THEN DirEntry(f.name \o <<Sep>>) ELSE RegEntry(f.name, f.data)

\* Tar.Write of a file value f: [arch, err]
TarWrite(tt, a, f) ==
    IF ~tt.tw.open THEN [arch |-> a, err |-> "notCreated"]
    ELSE IF ~f.hasInfo THEN [arch |-> a, err |-> "noFileInfo"]
    ELSE IF f.name = <<>> THEN [arch |-> a, err |-> "missingName"]
    ELSE IF ~f.hasReader THEN [arch |-> a, err |-> "noReader"]
    ELSE [arch |-> TwWrite(a, tt.tw, HeaderOf(f)), err |-> "nil"]

\* the handle and the result of Tar.Read after tr.Next answered n
ReadResult(tt, n) == [t |-> [tt EXCEPT !.tr = n.r], err |-> n.err, idx |-> n.idx]

\* Tar.Read: [t, err, idx]
TarRead(tt, a) ==
    IF ~tt.tr.open THEN [t |-> tt, err |-> "notOpen", idx |-> 0]
    ELSE ReadResult(tt, TrNext(a, tt.tr))

\* the second half of Tar.Close: the writer is closed and dropped
CloseWriter(tt, a) ==
    IF tt.tw.open
    THEN [t |-> [tt EXCEPT !.tw = NilW], arch |-> TwClose(a, tt.tw),
          err |-> "nil", fin |-> TRUE]
    ELSE [t |-> tt, arch |-> a, err |-> "nil", fin |-> FALSE]

\* a Close that leaves the reader bound
TarCloseWriterOnly(tt, a) == CloseWriter(tt, a)

\* Tar.Close: [t, arch, err, fin]; fin tells whether the writer was finalized
TarClose(tt, a) ==
    CloseWriter(IF tt.tr.open THEN [tt EXCEPT !.tr = NilR] ELSE tt, a)

(***************************************************************************)
(* tar.go: Archive and writeWalk.                                          *)
(***************************************************************************)
\* the chunks that begin the names of the model, in lexical order
LexOrder == <<"a", "b", "c", "d", "dir", "dst", "e", "f", "g", "h", "k", "p", "sub", "x">>
Rank(name) == CHOOSE i \in 1..Len(LexOrder) : LexOrder[i] = name[1]

\* the names of S sorted, as filepath.Walk reads a directory
RECURSIVE SortNames(_)
FirstThen(m, S) == <<m>> \o SortNames(S \ {m})
SortNames(S) ==
    IF S = {} THEN <<>>
    ELSE FirstThen(CHOOSE x \in S : \A y \in S : Rank(x) <= Rank(y), S)

\* the entries of directory p (absolute), sorted by name
ReadDirNames(d, p) ==
    SortNames({Base(q) : q \in {r \in DOMAIN d : r # p /\ Dir(r) = p}})

\* filepath.Walk(root): the paths handed to the walk function, in order
RECURSIVE WalkList(_, _)
RECURSIVE WalkChildren(_, _, _)
WalkListAt(d, fpath, p) ==
    IF d[p].kind = "dir"
    THEN <<fpath>> \o WalkChildren(d, fpath, ReadDirNames(d, p))
    ELSE <<fpath>>
WalkList(d, fpath) == WalkListAt(d, fpath, Abs(fpath))
WalkChildren(d, fpath, names) ==
    IF names = <<>> THEN <<>>
    ELSE WalkList(d, Join(fpath, Head(names))) \o WalkChildren(d, fpath, Tail(names))

\* the name in the archive of a node whose name relative to the source is r
NameUnder(baseDir, r) == [err |-> r.err, s |-> Join(baseDir, r.s)]

\* the name writeWalk gives the node fpath of the walk of source: [err, s]
NameInArchive(source, baseDir, fpath) ==
    NameUnder(baseDir, IF source # fpath THEN Rel(source, fpath)
                       ELSE [err |-> FALSE, s |-> source])

\* the file value the walk function hands to Tar.Write
FileOf(node, name) ==
    [hasInfo |-> TRUE, name |-> name, isDir |-> node.kind = "dir",
     hasReader |-> TRUE, data |-> node.data]

\* the walk function of writeWalk over the rest of the walk: [err, arch]
RECURSIVE WriteNodes(_, _, _, _, _, _)
\* after the node's write answered w: handleErr, then the next node
WriteDone(tt, w, d, source, baseDir, fpaths) ==
    IF w.err # "nil" /\ ~tt.ContinueOnError
    THEN [err |-> "walk", arch |-> w.arch]
    ELSE WriteNodes(tt, w.arch, d, source, baseDir, Tail(fpaths))
\* the node is written under the name nm
WriteNamed(tt, a, d, source, baseDir, fpaths, nm) ==
    WriteDone(tt,
              IF nm.err THEN [arch |-> a, err |-> "rel"]
              ELSE TarWrite(tt, a, FileOf(d[Abs(Head(fpaths))], nm.s)),
              d, source, baseDir, fpaths)
WriteNodes(tt, a, d, source, baseDir, fpaths) ==
    IF fpaths = <<>> THEN [err |-> "nil", arch |-> a]
    ELSE WriteNamed(tt, a, d, source, baseDir, fpaths,
                    NameInArchive(source, baseDir, Head(fpaths)))

\* Tar.writeWalk once the source's absolute path p is known
WriteWalkAt(tt, a, d, source, topLevelFolder, p) ==
    IF p \notin DOMAIN d THEN [err |-> "stat", arch |-> a]
    ELSE WriteNodes(tt, a, d, source,
                    IF d[p].kind = "dir" THEN Join(topLevelFolder, Base(p))
                    ELSE topLevelFolder,
                    WalkList(d, source))

\* Tar.writeWalk: [err, arch]
writeWalk(tt, a, d, source, topLevelFolder) ==
    WriteWalkAt(tt, a, d, source, topLevelFolder, Abs(source))

\* the loop of Archive over its sources: [err, arch]
RECURSIVE WalkSources(_, _, _, _, _)
WalkedOne(tt, w, d, sources, topLevelFolder) ==
    IF w.err # "nil" THEN w
    ELSE WalkSources(tt, w.arch, d, Tail(sources), topLevelFolder)
WalkSources(tt, a, d, sources, topLevelFolder) ==
    IF sources = <<>> THEN [err |-> "nil", arch |-> a]
    ELSE WalkedOne(tt, writeWalk(tt, a, d, Head(sources), topLevelFolder),
                   d, sources, topLevelFolder)

\* checks of the destination's name alone
ArchivePreflightNameOnly(tt, a, destination) ==
    IF ~HasSuffix(destination, <<".tar">>) THEN "badName" ELSE "nil"

\* the checks of Tar.Archive made before the destination is created
ArchivePreflight(tt, a, destination) ==
    IF ~HasSuffix(destination, <<".tar">>) THEN "badName"
    ELSE IF ~tt.OverwriteExisting /\ a[destination].exists THEN "exists"
    ELSE "nil"

\* the folder Archive puts its sources under
ArchiveTopLevel(tt, sources, destination) ==
    IF tt.ImplicitTopLevelFolder /\ multipleTopLevels(sources)
    THEN folderNameFromFileName(destination)
    ELSE <<>>

\* the return of Archive: the deferred Close has run (cl) after the walks
\* answered err
ArchiveClosed(cl, err, sources, destination) ==
    [t |-> cl.t,
     arch |-> [cl.arch EXCEPT ![destination].from =
                  IF err = "nil" THEN sources ELSE <<>>],
     err |-> err,
     log |-> <<"os.Create", "tar.NewWriter", "tw.Close", "out.Close">>]

\* Archive after its walks answered w
ArchiveWalked(tt, w, sources, destination) ==
    ArchiveClosed(TarClose(tt, w.arch), w.err, sources, destination)

\* Archive after t.Create answered c on the created destination
ArchiveCreated(tt, a, d, sources, destination, c) ==
    IF c.err # "nil"
    THEN [t |-> tt, arch |-> a, err |-> c.err, log |-> <<"os.Create", "out.Close">>]
    ELSE ArchiveWalked(c.t,
                       WalkSources(c.t, a, d, sources,
                                   ArchiveTopLevel(c.t, sources, destination)),
                       sources, destination)

\* Archive after its checks answered pre
ArchiveChecked(tt, a, d, sources, destination, pre) ==
    IF pre # "nil"
    THEN [t |-> tt, arch |-> a, err |-> pre, log |-> <<>>]
    ELSE ArchiveCreated(tt, OsCreate(a, destination), d, sources, destination,
                        TarCreate(tt, destination))

\* Tar.Archive: [t, arch, err, log]
TarArchive(tt, a, d, sources, destination) ==
    ArchiveChecked(tt, a, d, sources, destination,
                   ArchivePreflight(tt, a, destination))

\* TarGz.Archive after the plain Archive answered r
Wrapped(r) == [r EXCEPT !.log = <<"wrapWriter">> \o r.log]

\* TarGz.Archive: [t, arch, err, log]
TarGzArchive(tt, a, d, sources, destination) ==
    IF /\ ~HasSuffix(destination, <<".tar", ".gz">>)
       /\ ~HasSuffix(destination, <<".tgz">>)
    THEN [t |-> tt, arch |-> a, err |-> "badName", log |-> <<>>]
    ELSE Wrapped(TarArchive(wrapWriter(tt), a, d, sources, destination))

SourceLists ==
    { << <<"dir">> >>, << <<"dir">>, <<"h", ".txt">> >>,
      << <<Sep, "w", Sep, "h", ".txt">> >>,
      << <<"m">>, <<"h", ".txt">> >> }
ArchiveDests == {XTar, PTar, QTarGz, YTgz, NZip}

\* the return of a call of Archive that answered r
ArchiveReturn(r, h, sources, destination) ==
    /\ t' = r.t
    /\ arch' = r.arch
    /\ log' = r.log
    /\ pc' = "returned"
    /\ cur' = NoCall
    /\ last' = [NoCall EXCEPT !.op = "Archive", !.h = h, !.err = r.err,
                              !.src = sources, !.dst = destination]
    /\ nops' = nops + 1
    /\ nfile' = nfile + 1
    /\ UNCHANGED <<disk, prev>>

\* a call of Archive on the plain handle
Archive(sources, destination) ==
    /\ CanCallFile
    /\ ArchiveReturn(TarArchive(t, arch, disk, sources, destination),
                     "tar", sources, destination)

\* a call of Archive on the compressed handle
TgzArchive(sources, destination) ==
    /\ CanCallFile
    /\ ArchiveReturn(TarGzArchive(t, arch, disk, sources, destination),
                     "targz", sources, destination)

(***************************************************************************)
(* tar.go: Unarchive, addTopLevelFolder, untarNext, untarFile.             *)
(***************************************************************************)
\* Tar.untarFile of entry e to path to: [err, disk]
untarFile(tt, d, e, to) ==
    IF e.flag # "dir" /\ ~tt.OverwriteExisting /\ fileExists(d, to)
    THEN [err |-> TRUE, disk |-> d]
    ELSE CASE e.flag = "dir" -> mkdir(d, to)
           [] e.flag \in {"reg", "char", "block", "fifo"} -> writeNewFile(d, to, e.data)
           [] e.flag = "symlink" -> writeNewSymbolicLink(d, to, e.link)
           [] e.flag = "link" -> writeNewHardLink(d, to, Join(to, e.link))
           [] e.flag = "xglobal" -> [err |-> FALSE, disk |-> d]
           [] OTHER -> [err |-> TRUE, disk |-> d]

\* the names tar.Reader.Next yields from the raw bytes of an archive file
RECURSIVE ScanNames(_, _)
ScanMore(name, rest) == [err |-> rest.err, files |-> <<name>> \o rest.files]
ScanNext(a, n) ==
    IF n.err = "EOF" THEN [err |-> FALSE, files |-> <<>>]
    ELSE IF n.err # "nil" THEN [err |-> TRUE, files |-> <<>>]
    ELSE ScanMore(a[n.r.in].ents[n.idx].name, ScanNames(a, n.r))
ScanNames(a, r) == ScanNext(a, TrNext(a, r))

\* the destination addTopLevelFolder answers after the scan sc
TopLevelDest(sc, sourceArchive, destination) ==
    IF sc.err THEN [err |-> TRUE, dest |-> <<>>]
    ELSE IF multipleTopLevels(sc.files)
    THEN [err |-> FALSE,
          dest |-> Join(destination, folderNameFromFileName(sourceArchive))]
    ELSE [err |-> FALSE, dest |-> destination]

\* Tar.addTopLevelFolder: [err, dest]
addTopLevelFolder(a, sourceArchive, destination) ==
    IF ~a[sourceArchive].exists THEN [err |-> TRUE, dest |-> <<>>]
    ELSE TopLevelDest(ScanNames(a, NewReader(sourceArchive, "raw")),
                      sourceArchive, destination)

\* whether directory p holds nothing (or is not there)
IsEmptyDir(d, p) == \A q \in DOMAIN d : ~HasPrefix(q, Abs(p) \o <<Sep>>)

\* Unarchive after t.Open answered o
EnterOpened(tt, d, dest, scanned, o) ==
    IF o.err # "nil"
    THEN [t |-> tt, disk |-> d, err |-> o.err, dest |-> dest,
          log |-> scanned \o <<"os.Open", "file.Close">>]
    ELSE [t |-> o.t, disk |-> d, err |-> "nil", dest |-> dest,
          log |-> scanned \o <<"os.Open", "tar.NewReader">>]

\* Unarchive after addTopLevelFolder answered top
EnterScanned(tt, a, d, source, destination, top, scanned) ==
    IF top.err
    THEN [t |-> tt, disk |-> d, err |-> "scan", dest |-> destination, log |-> <<>>]
    ELSE IF ~a[source].exists
    THEN [t |-> tt, disk |-> d, err |-> "open", dest |-> top.dest, log |-> scanned]
    ELSE EnterOpened(tt, d, top.dest, scanned, TarOpen(tt, source))

\* Unarchive after the destination was prepared (mk)
EnterMade(tt, a, d, source, destination, mk) ==
    IF mk.err
    THEN [t |-> tt, disk |-> d, err |-> "mkdir", dest |-> destination, log |-> <<>>]
    ELSE EnterScanned(tt, a, mk.disk, source, destination,
                      IF tt.ImplicitTopLevelFolder
                      THEN addTopLevelFolder(a, source, destination)
                      ELSE [err |-> FALSE, dest |-> destination],
                      IF tt.ImplicitTopLevelFolder THEN <<"scan">> ELSE <<>>)

\* Tar.Unarchive up to its read loop: [t, disk, err, dest, log]
UnarchiveEnter(tt, a, d, source, destination) ==
    EnterMade(tt, a, d, source, destination,
              IF ~fileExists(d, destination) /\ tt.MkdirAll
              THEN mkdir(d, destination)
              ELSE [err |-> FALSE, disk |-> d])

\* an error in the read loop: logged and passed over with ContinueOnError,
\* returned without it
LoopFailed(tt, t1, a, d, c) ==
    IF tt.ContinueOnError
    THEN [t |-> t1, arch |-> a, disk |-> d, cur |-> [c EXCEPT !.errs = 1],
          done |-> FALSE, err |-> "nil"]
    ELSE [t |-> t1, arch |-> a, disk |-> d, cur |-> c, done |-> TRUE, err |-> "read"]

\* untarNext after untarFile answered u for entry idx
AfterUntar(tt, t1, a, c, idx, to, u) ==
    IF u.err THEN LoopFailed(tt, t1, a, u.disk, c)
    ELSE [t |-> t1, arch |-> a, disk |-> u.disk,
          cur |-> [c EXCEPT !.wrote = Append(@, [idx |-> idx, to |-> to])],
          done |-> FALSE, err |-> "nil"]

\* untarNext: the entry idx goes to path to
UntarTo(tt, t1, a, d, c, idx, to) ==
    AfterUntar(tt, t1, a, c, idx, to, untarFile(tt, d, a[tt.tr.in].ents[idx], to))

\* the read loop after t.Read answered r
AfterRead(tt, a, d, c, r) ==
    IF r.err = "EOF"
    THEN [t |-> r.t, arch |-> a, disk |-> d, cur |-> c, done |-> TRUE, err |-> "nil"]
    ELSE IF r.err # "nil" THEN LoopFailed(tt, r.t, a, d, c)
    ELSE UntarTo(tt, r.t, a, d, [c EXCEPT !.visited = @ + 1], r.idx,
                 Join(c.dst, a[tt.tr.in].ents[r.idx].name))

\* the deferred t.Close of Unarchive, run when the turn x ended the call
CloseInto(x, cl) == [x EXCEPT !.t = cl.t, !.arch = cl.arch]
\* a Close that runs only when the call succeeds
DeferredOnSuccess(x) ==
    IF x.done /\ x.err = "nil" THEN CloseInto(x, TarClose(x.t, x.arch)) ELSE x

Deferred(x) == IF x.done THEN CloseInto(x, TarClose(x.t, x.arch)) ELSE x

\* one turn of the read loop of Unarchive (untarNext and what follows it):
\* [t, arch, disk, cur, done, err]
UnarchiveLoop(tt, a, d, c) == Deferred(AfterRead(tt, a, d, c, TarRead(tt, a)))

UnarchiveSources == {PTar, QTarGz, XTar, LTar}
ReadSources == {PTar, QTarGz}
Destination == <<"dst">>

\* the record of a call of Unarchive
UnarchiveCall(h, source, dest, fresh) ==
    [NoCall EXCEPT !.op = "Unarchive", !.h = h, !.src = source, !.dst = dest,
                   !.dst0 = Destination, !.fresh = fresh]

\* Unarchive reaches its read loop, or returns before it
UnarchiveEntered(r, c) ==
    /\ t' = r.t
    /\ disk' = r.disk
    /\ log' = r.log
    /\ nops' = nops + 1
    /\ nfile' = nfile + 1
    /\ IF r.err = "nil"
       THEN pc' = "unarchive" /\ cur' = c /\ last' = last
       ELSE pc' = "returned" /\ cur' = NoCall /\ last' = [c EXCEPT !.err = r.err]
    /\ UNCHANGED <<arch, prev>>

UnarchiveFrom(r, h, source) ==
    UnarchiveEntered(r, UnarchiveCall(h, source, r.dest, IsEmptyDir(disk, Destination)))

\* a call of Unarchive, up to the read loop; h tells the facade
UnarchiveStart(h, source) ==
    /\ CanCallFile
    /\ UnarchiveFrom(UnarchiveEnter(IF h = "targz" THEN wrapReader(t) ELSE t,
                                    arch, disk, source, Destination),
                     h, source)

\* the read loop goes on, or Unarchive returns
UnarchiveTurned(r) ==
    /\ t' = r.t
    /\ arch' = r.arch
    /\ disk' = r.disk
    /\ IF r.done
       THEN /\ pc' = "returned"
            /\ cur' = NoCall
            /\ last' = [r.cur EXCEPT !.err = r.err]
            /\ log' = log \o <<"t.Close", "file.Close">>
       ELSE /\ pc' = pc
            /\ cur' = r.cur
            /\ last' = last
            /\ log' = log
    /\ UNCHANGED <<prev, nops, nfile>>

\* one turn of the read loop of Unarchive
UnarchiveNext ==
    /\ pc = "unarchive"
    /\ UnarchiveTurned(UnarchiveLoop(t, arch, disk, cur))

(***************************************************************************)
(* tar.go: Walk and Extract.                                               *)
(***************************************************************************)
\* the walk function of Extract after untarFile answered u
VisitWritten(c, idx, joined, u) ==
    IF u.err THEN [res |-> "err", disk |-> u.disk, cur |-> c]
    ELSE [res |-> IF c.tdp = <<>> THEN "stop" ELSE "nil",
          disk |-> u.disk,
          cur |-> [c EXCEPT !.wrote = Append(@, [idx |-> idx, to |-> joined])]]

\* the walk function of Extract after filepath.Rel answered end
VisitRel(tt, d, c, e, idx, end) ==
    IF end.err THEN [res |-> "err", disk |-> d, cur |-> c]
    ELSE VisitWritten(c, idx, Join(c.dst, end.s),
                      untarFile(tt, d, e, Join(c.dst, end.s)))

\* a walk function that goes on after the target's subtree
VisitInToTheEnd(tt, d, c, e, idx) ==
    IF within(c.target, e.name)
    THEN VisitRel(tt, d, c, e, idx, Rel(c.tdp, e.name))
    ELSE [res |-> "nil", disk |-> d, cur |-> c]

\* the walk function of Extract once targetDirPath (c.tdp) is settled
VisitIn(tt, d, c, e, idx) ==
    IF within(c.target, e.name)
    THEN VisitRel(tt, d, c, e, idx, Rel(c.tdp, e.name))
    ELSE [res |-> IF c.tdp # <<>> THEN "stop" ELSE "nil", disk |-> d, cur |-> c]

\* the walk function of Extract on the entry whose cleaned name is name
VisitNamed(tt, d, c, e, idx, name) ==
    VisitIn(tt, d,
            [c EXCEPT !.tdp = IF e.flag = "dir" /\ c.target = name
                              THEN Dir(name) ELSE @],
            e, idx)

\* the walk function of Extract on entry e: [res, disk, cur]
ExtractVisit(tt, d, c, e, idx) == VisitNamed(tt, d, c, e, idx, Clean(e.name))

\* a loop that takes the stop signal for an error like any other
AfterVisitStopIsError(tt, res) ==
    IF res = "nil" THEN "next"
    ELSE IF tt.ContinueOnError THEN "next"
    ELSE "abort"

\* what the loop of Walk does with the answer of the walk function
AfterVisit(tt, res) ==
    IF res = "nil" THEN "next"
    ELSE IF res = "stop" THEN "break"
    ELSE IF tt.ContinueOnError THEN "next"
    ELSE "abort"

\* the turn of the loop of Walk that ends as go tells
WalkGo(v, go) ==
    [disk |-> v.disk,
     cur |-> [v.cur EXCEPT !.ans = v.res, !.errs = IF v.res = "err" THEN 1 ELSE @],
     done |-> go # "next",
     err |-> IF go = "abort" THEN "walk" ELSE "nil"]

\* the loop of Walk after the walk function answered v
WalkVisited(tt, v) == WalkGo(v, AfterVisit(tt, v.res))

\* the loop of Walk calls the walk function on entry idx
WalkVisit(tt, a, d, c, res, idx) ==
    WalkVisited(tt, IF c.vis = "extract"
                    THEN ExtractVisit(tt, d, c, a[c.tr.in].ents[idx], idx)
                    ELSE [res |-> res, disk |-> d, cur |-> c])

\* the loop of Walk after tr.Next answered n
WalkRead(tt, a, d, c, res, n) ==
    IF n.err = "EOF"
    THEN [disk |-> d, cur |-> c, done |-> TRUE, err |-> "nil"]
    ELSE IF n.err # "nil"
    THEN IF tt.ContinueOnError
         THEN [disk |-> d, cur |-> [c EXCEPT !.errs = 1], done |-> FALSE, err |-> "nil"]
         ELSE [disk |-> d, cur |-> c, done |-> TRUE, err |-> "next"]
    ELSE WalkVisit(tt, a, d, [c EXCEPT !.visited = @ + 1], res, n.idx)

\* the loop of Walk with the reader as tr.Next left it
WalkTurn(tt, a, d, c, res, n) == WalkRead(tt, a, d, [c EXCEPT !.tr = n.r], res, n)

\* one turn of the loop of Walk, the walk function answering res for a user's
\* visitor: [disk, cur, done, err]
WalkLoop(tt, a, d, c, res) == WalkTurn(tt, a, d, c, res, TrNext(a, c.tr))

ExtractTargets ==
    { <<"a", Sep, "b", Sep, "c", ".txt">>, <<"a", Sep, "b", Sep>>,
      <<"k", ".txt">> }

\* Walk opens the archive file and reaches its loop, or returns
WalkEnter(h, archive, c) ==
    /\ t' = IF h = "targz" THEN wrapReader(t) ELSE t
    /\ nops' = nops + 1
    /\ nfile' = nfile + 1
    /\ IF arch[archive].exists
       THEN pc' = "walk" /\ cur' = c /\ last' = last /\ log' = <<"os.Open">>
       ELSE /\ pc' = "returned" /\ cur' = NoCall /\ log' = <<>>
            /\ last' = [c EXCEPT !.err = "open", !.tr = NilR]
    /\ UNCHANGED <<arch, disk, prev>>

\* Tar.Walk / TarGz.Walk with a user's visitor, up to the loop
WalkStart(h, archive) ==
    /\ CanCallFile
    /\ WalkEnter(h, archive,
                 [NoCall EXCEPT !.op = "Walk", !.h = h, !.src = archive,
                                !.vis = "user", !.tr = NewReader(archive, "raw")])

\* Tar.Extract / TarGz.Extract, up to the loop of Walk
ExtractStart(h, source, target) ==
    /\ CanCallFile
    /\ WalkEnter(h, source,
                 [NoCall EXCEPT !.op = "Extract", !.h = h, !.src = source,
                                !.vis = "extract", !.target = Clean(target),
                                !.dst = Destination, !.dst0 = Destination,
                                !.fresh = IsEmptyDir(disk, Destination),
                                !.tr = NewReader(source, "raw")])

\* the loop of Walk goes on, or Walk returns
WalkTurned(r) ==
    /\ disk' = r.disk
    /\ IF r.done
       THEN /\ pc' = "returned"
            /\ cur' = NoCall
            /\ last' = [r.cur EXCEPT !.err = r.err]
            /\ log' = Append(log, "file.Close")
       ELSE /\ pc' = pc
            /\ cur' = r.cur
            /\ last' = last
            /\ log' = log
    /\ UNCHANGED <<t, arch, prev, nops, nfile>>

\* one turn of the loop of Walk; res is the answer of a user's visitor
WalkNext(res) ==
    /\ pc = "walk"
    /\ cur.vis = "extract" => res = "nil"
    /\ WalkTurned(WalkLoop(t, arch, disk, cur, res))

VisitorAnswers == {"nil", "stop", "err"}

(***************************************************************************)
(* The calls a user makes on the handle's stream interface.  The user's    *)
(* sink is the buffer UBuf; the user's sources are the existing archives.  *)
(***************************************************************************)
UserFiles ==
    { [hasInfo |-> TRUE, name |-> <<"u", ".txt">>, isDir |-> FALSE,
       hasReader |-> TRUE, data |-> "c8"],
      [hasInfo |-> TRUE, name |-> <<"v">>, isDir |-> TRUE,
       hasReader |-> FALSE, data |-> ""] }

\* Tar.Create, called on the plain handle
Create ==
    /\ CanCall
    /\ LET r == TarCreate(t, UBuf)
       IN  /\ t' = r.t
           /\ Return("Create", "tar", r.err)
           /\ log' = IF r.err = "nil" THEN <<"tar.NewWriter">> ELSE <<>>
    /\ UNCHANGED <<arch, disk>>

\* TarGz.Create: wrapWriter, then the call of tgz.Create itself
TgzCreate ==
    /\ CanCall
    /\ t' = wrapWriter(t)
    /\ pc' = "tgzCreate"
    /\ cur' = [NoCall EXCEPT !.op = "Create", !.h = "targz", !.depth = 1]
    /\ nops' = nops + 1
    /\ log' = <<"wrapWriter">>
    /\ UNCHANGED <<arch, disk, last, prev, nfile>>

\* the nested tgz.Create: wrapWriter again, one frame deeper
TgzCreateRecurse ==
    /\ pc = "tgzCreate"
    /\ cur.depth < MaxStack
    /\ t' = wrapWriter(t)
    /\ cur' = [cur EXCEPT !.depth = cur.depth + 1]
    /\ log' = Append(log, "wrapWriter")
    /\ UNCHANGED <<arch, disk, pc, last, prev, nops, nfile>>

\* the goroutine stack is exhausted: the runtime ends the process
TgzCreateOverflow ==
    /\ pc = "tgzCreate"
    /\ cur.depth = MaxStack
    /\ pc' = "crashed"
    /\ last' = [cur EXCEPT !.err = "stackOverflow"]
    /\ cur' = NoCall
    /\ UNCHANGED <<t, arch, disk, prev, log, nops, nfile>>

\* Tar.Open, called on the plain handle
Open(in) ==
    /\ CanCall
    /\ LET r == TarOpen(t, in)
       IN  /\ t' = r.t
           /\ Return("Open", "tar", r.err)
           /\ log' = IF r.err = "nil" THEN <<"tar.NewReader">> ELSE <<>>
    /\ UNCHANGED <<arch, disk>>

\* TarGz.Open: wrapReader, then Tar.Open
TgzOpen(in) ==
    /\ CanCall
    /\ LET r == TarOpen(wrapReader(t), in)
       IN  /\ t' = r.t
           /\ Return("Open", "targz", r.err)
           /\ log' = <<"wrapReader">> \o
                     (IF r.err = "nil" THEN <<"tar.NewReader">> ELSE <<>>)
    /\ UNCHANGED <<arch, disk>>

\* Tar.Write (TarGz has no Write of its own)
Write(f) ==
    /\ CanCall
    /\ LET r == TarWrite(t, arch, f)
       IN  /\ arch' = r.arch
           /\ Return("Write", "tar", r.err)
    /\ log' = <<>>
    /\ UNCHANGED <<t, disk>>

\* Tar.Read (TarGz has no Read of its own)
Read ==
    /\ CanCall
    /\ LET r == TarRead(t, arch)
       IN  /\ t' = r.t
           /\ Return("Read", "tar", r.err)
    /\ log' = <<>>
    /\ UNCHANGED <<arch, disk>>

\* Tar.Close (TarGz has no Close of its own)
Close ==
    /\ CanCall
    /\ LET r == TarClose(t, arch)
       IN  /\ t' = r.t
           /\ arch' = r.arch
           /\ Return("Close", "tar", r.err)
           /\ log' = IF r.fin THEN <<"tw.Close">> ELSE <<>>
    /\ UNCHANGED disk

UserSources == {PTar, QTarGz}

\* the caller takes the result of the call that returned and goes on
Resume ==
    /\ pc = "returned"
    /\ pc' = "idle"
    /\ prev' = last.op
    /\ last' = NoCall
    /\ log' = <<>>
    /\ UNCHANGED <<t, arch, disk, cur, nops, nfile>>

Next ==
    \/ Create
    \/ TgzCreate
    \/ TgzCreateRecurse
    \/ TgzCreateOverflow
    \/ \E in \in UserSources : Open(in)
    \/ \E in \in UserSources : TgzOpen(in)
    \/ \E f \in UserFiles : Write(f)
    \/ Read
    \/ Close
    \/ \E ss \in SourceLists, dd \in ArchiveDests : Archive(ss, dd)
    \/ \E ss \in SourceLists, dd \in ArchiveDests : TgzArchive(ss, dd)
    \/ \E h \in Handles, src \in UnarchiveSources : UnarchiveStart(h, src)
    \/ UnarchiveNext
    \/ \E h \in Handles, src \in ReadSources : WalkStart(h, src)
    \/ \E h \in Handles, src \in ReadSources, tg \in ExtractTargets :
          ExtractStart(h, src, tg)
    \/ \E res \in VisitorAnswers : WalkNext(res)
    \/ Resume

Spec == Init /\ [][Next]_vars

(***************************************************************************)
(* Definitions shared by the properties.                                   *)
(***************************************************************************)
Returned(op) == pc = "returned" /\ last.op = op

\* the nodes of d at or below the absolute path root, named relative to base
TreeOf(d, root, base) ==
    { [path |-> Rel(base, q).s, kind |-> d[q].kind, data |-> d[q].data] :
        q \in {r \in DOMAIN d : r = root \/ HasPrefix(r, root \o <<Sep>>)} }

\* the nodes of d strictly below the absolute path root, named relative to it
TreeBelow(d, root) ==
    { [path |-> Rel(root, q).s, kind |-> d[q].kind, data |-> d[q].data] :
        q \in {r \in DOMAIN d : HasPrefix(r, root \o <<Sep>>)} }

\* how many times event ev stands in the log
Count(ev) == Cardinality({i \in 1..Len(log) : log[i] = ev})

\* the destination names each facade documents
ValidName(h, destination) ==
    IF h = "tar" THEN HasSuffix(destination, <<".tar">>)
    ELSE \/ HasSuffix(destination, <<".tar", ".gz">>)
         \/ HasSuffix(destination, <<".tgz">>)

(***************************************************************************)
(* C1.  Round trip: Archive of one source directory followed by Unarchive  *)
(* of the result into an empty destination leaves, below the destination,  *)
(* exactly the source tree: the same relative paths (named from the        *)
(* source directory's parent), kinds and content.                          *)
(***************************************************************************)
C1_RoundTrip ==
    ( /\ Returned("Unarchive")
      /\ last.err = "nil"
      /\ last.errs = 0
      /\ last.fresh
      /\ Len(arch[last.src].from) = 1
      /\ disk[Abs(arch[last.src].from[1])].kind = "dir" )
    => LET source == Abs(arch[last.src].from[1])
       IN  TreeBelow(disk, Abs(last.dst0)) = TreeOf(disk, source, Dir(source))

(***************************************************************************)
(* C2.  A call of Archive is rejected for its destination name exactly     *)
(* when the name lacks the extension of the facade called (".tar" for the  *)
(* plain handle, ".tar.gz" or ".tgz" for the compressed one), and a        *)
(* rejected destination is not created.                                    *)
(***************************************************************************)
C2_NameValidation ==
    Returned("Archive") =>
        /\ (last.err = "badName") <=> ~ValidName(last.h, last.dst)
        /\ last.err = "badName" => Count("os.Create") = 0

(***************************************************************************)
(* C3.  A call of Archive with OverwriteExisting off and an existing       *)
(* destination returns an error, and leaves every archive file and the     *)
(* reader and writer bindings of the handle as they were; on the plain     *)
(* handle with a ".tar" destination the error is the "file already         *)
(* exists" one and the whole handle is as it was.                          *)
(***************************************************************************)
C3_ExistingDestinationUntouched ==
    [][ ( /\ pc = "idle"
          /\ pc' = "returned"
          /\ last'.op = "Archive"
          /\ ~t.OverwriteExisting
          /\ arch[last'.dst].exists )
        => /\ last'.err # "nil"
           /\ arch' = arch
           /\ t'.tw = t.tw
           /\ t'.tr = t.tr
           /\ \A i \in 1..Len(log') : log'[i] \notin {"os.Create", "tar.NewWriter"}
           /\ (last'.h = "tar" /\ HasSuffix(last'.dst, <<".tar">>))
                 => (last'.err = "exists" /\ t' = t) ]_vars

C3_Witness ==
    /\ Returned("Archive")
    /\ last.err = "exists"
    /\ arch[last.dst].exists
    /\ arch[last.dst].ents = SampleEntries

(***************************************************************************)
(* C4.  Close leaves the handle neither write-open nor read-open; a Close  *)
(* that directly follows a Close returns no error, finalizes no writer and *)
(* changes neither the handle nor any stream; and no step adds more than   *)
(* one end-of-archive marker to a stream, the writer that added it being   *)
(* unbound by the same step.                                               *)
(***************************************************************************)
C4_CloseIdempotent ==
    [][ /\ ( pc = "idle" /\ pc' = "returned" /\ last'.op = "Close" )
           => /\ ~t'.tw.open
              /\ ~t'.tr.open
              /\ prev = "Close" =>
                    (last'.err = "nil" /\ arch' = arch /\ t' = t /\ log' = <<>>)
        /\ \A n \in ArchNames :
              (arch[n].exists /\ arch'[n].exists /\ arch'[n].eoa > arch[n].eoa)
              => (arch'[n].eoa = arch[n].eoa + 1 /\ ~t'.tw.open) ]_vars

C4_Witness ==
    /\ Returned("Close")
    /\ prev = "Close"
    /\ arch[UBuf].eoa = 1
    /\ arch[UBuf].ents # <<>>
    /\ ~t.tw.open

(***************************************************************************)
(* C5.  On the compressed handle the TAR codec works through gzip: a       *)
(* reader bound by TarGz.Open decodes gzip, and when a handle that the     *)
(* compressed facade opened is closed by Unarchive, the gzip cleanup runs  *)
(* exactly once, after the handle is closed and before the file is.        *)
(***************************************************************************)
C5_GzipWrapped ==
    /\ (Returned("Open") /\ last.h = "targz" /\ last.err = "nil")
          => t.tr.wrap = "gzip"
    /\ (Returned("Unarchive") /\ last.h = "targz" /\ Count("tar.NewReader") = 1)
          => /\ Count("cleanup") = 1
             /\ \E i, j, k \in 1..Len(log) :
                   /\ i < j /\ j < k
                   /\ log[i] = "t.Close" /\ log[j] = "cleanup"
                   /\ log[k] = "file.Close"


\* the entries of the archive file a call read
EntriesOf(c) == arch[c.src].ents

\* the indices of the entries of the call's archive that are within path T
WithinSet(c, T) == {j \in 1..Len(EntriesOf(c)) : within(T, EntriesOf(c)[j].name)}

\* entry e stands at path to of the directory tree
Materialized(d, e, to) ==
    /\ Abs(to) \in DOMAIN d
    /\ d[Abs(to)].kind = e.flag
    /\ d[Abs(to)].data = e.data

\* an Extract that returned without any error, from an archive it could read
ExtractedCleanly ==
    /\ Returned("Extract")
    /\ last.err = "nil"
    /\ last.errs = 0
    /\ last.fresh

(***************************************************************************)
(* C6.  Extract with a target that names a non-directory entry, at any     *)
(* depth, writes exactly one file, at the destination joined with the      *)
(* target's base name, and visits no entry after the target's.             *)
(***************************************************************************)
C6_ExtractSingleFile ==
    ExtractedCleanly =>
    \A i \in 1..Len(EntriesOf(last)) :
        ( /\ EntriesOf(last)[i].flag # "dir"
          /\ Clean(EntriesOf(last)[i].name) = last.target )
        => /\ last.wrote = << [idx |-> i, to |-> Join(last.dst0, Base(last.target))] >>
           /\ last.visited = i

(***************************************************************************)
(* C7.  Extract with a target T that names a directory entry followed      *)
(* contiguously by its descendants: exactly the entries within T are       *)
(* written, each at the destination joined with its name taken from T's    *)
(* last element on, and standing there in the directory tree; the last     *)
(* entry visited is the first one after the subtree (the last entry of the *)
(* archive when the subtree ends it).                                      *)
(***************************************************************************)
\* the name of an entry from the last element of T on
Rebased(T, name) ==
    JoinComps(SubSeq(Components(name), Len(Components(T)), Len(Components(name))))

\* entry i is T's directory entry and the entries within T are i..i+n-1
SubtreeAt(c, T, i) ==
    /\ EntriesOf(c)[i].flag = "dir"
    /\ Clean(EntriesOf(c)[i].name) = T
    /\ WithinSet(c, T) = i..(i + Cardinality(WithinSet(c, T)) - 1)

C7_ExtractDirectory ==
    ExtractedCleanly =>
    \A i \in 1..Len(EntriesOf(last)) :
        SubtreeAt(last, last.target, i)
        => /\ {last.wrote[k].idx : k \in 1..Len(last.wrote)} = WithinSet(last, last.target)
           /\ Len(last.wrote) = Cardinality(WithinSet(last, last.target))
           /\ \A k \in 1..Len(last.wrote) :
                 /\ last.wrote[k].to =
                       last.dst0 \o <<Sep>> \o
                       Rebased(last.target, EntriesOf(last)[last.wrote[k].idx].name)
                 /\ Materialized(disk, EntriesOf(last)[last.wrote[k].idx],
                                 last.wrote[k].to)
           /\ last.visited = IF i + Len(last.wrote) <= Len(EntriesOf(last))
                             THEN i + Len(last.wrote)
                             ELSE Len(EntriesOf(last))

C7_Witness ==
    /\ ExtractedCleanly
    /\ last.target = <<"a", Sep, "b">>
    /\ Len(last.wrote) = 3
    /\ last.wrote[2].to = <<"dst", Sep, "b", Sep, "c", ".txt">>
    /\ last.visited = 4
    /\ Len(EntriesOf(last)) = 5

(***************************************************************************)
(* C8.  Unarchive with ImplicitTopLevelFolder on, on the plain handle for  *)
(* a plain archive and on the compressed handle for a gzip one, into an    *)
(* empty destination, the handle not being read-open already and the       *)
(* archive holding directories and regular files only: the scan comes      *)
(* first, the call returns no error,                                       *)
(* and every entry is written and stands under destination/<archive base   *)
(* name> when the entry names have several top-level folders, directly     *)
(* under destination when they share one.                                  *)
(***************************************************************************)
\* where the call is to put the entry named name
ImplicitDest(c, name) ==
    IF multipleTopLevels([j \in 1..Len(EntriesOf(c)) |-> EntriesOf(c)[j].name])
    THEN Join(Join(c.dst0, BeforeExt(Base(c.src))), name)
    ELSE Join(c.dst0, name)

C8_ImplicitTopLevelFolder ==
    ( /\ Returned("Unarchive")
      /\ t.ImplicitTopLevelFolder
      /\ last.fresh
      /\ arch[last.src].exists
      /\ arch[last.src].eoa = 1
      /\ arch[last.src].gz = (last.h = "targz")
      /\ last.err # "alreadyOpen"
      /\ \A i \in 1..Len(EntriesOf(last)) : EntriesOf(last)[i].flag \in {"dir", "reg"} )
    => /\ last.err = "nil"
       /\ last.errs = 0
       /\ log # <<>> /\ log[1] = "scan"
       /\ Len(last.wrote) = Len(EntriesOf(last))
       /\ \A i \in 1..Len(last.wrote) :
             /\ last.wrote[i] = [idx |-> i, to |-> ImplicitDest(last, EntriesOf(last)[i].name)]
             /\ Materialized(disk, EntriesOf(last)[i], last.wrote[i].to)

(***************************************************************************)
(* C9.  In a turn of Walk that calls the visitor: when the visitor         *)
(* answers the stop signal, Walk returns no error, so the visitor is not   *)
(* called for any later entry, whatever ContinueOnError is; when it        *)
(* answers another error, Walk returns an error if ContinueOnError is off  *)
(* and goes on to the next entry if it is on.                              *)
(***************************************************************************)
\* this step is a turn of Walk that called a user's visitor and returned
VisitedAndReturned ==
    /\ pc = "walk" /\ cur.vis = "user"
    /\ pc' = "returned" /\ last'.visited = cur.visited + 1

\* this step is a turn of Walk that called a user's visitor and went on
VisitedAndWentOn ==
    /\ pc = "walk" /\ cur.vis = "user"
    /\ pc' = "walk" /\ cur'.visited = cur.visited + 1

C9_WalkStopSignal ==
    [][ /\ VisitedAndReturned =>
              /\ last'.ans \in {"stop", "err"}
              /\ last'.ans = "stop" => last'.err = "nil"
              /\ last'.ans = "err" => (last'.err # "nil" /\ ~t.ContinueOnError)
        /\ VisitedAndWentOn =>
              /\ cur'.ans \in {"nil", "err"}
              /\ cur'.ans = "err" => t.ContinueOnError
              /\ cur'.tr.pos = cur.tr.pos + 1
              /\ cur'.tr.pos = cur'.visited ]_vars

C9_Witness ==
    /\ Returned("Walk")
    /\ t.ContinueOnError
    /\ last.ans = "stop"
    /\ last.err = "nil"
    /\ last.errs = 1
    /\ last.visited = 2

(***************************************************************************)
(* C10.  Whatever calls of Create, Open, Write, Read and Close were made   *)
(* on the handle, it is never write-open and read-open at once.            *)
(***************************************************************************)
C10_ModeExclusive == nfile = 0 => ~(t.tw.open /\ t.tr.open)

(***************************************************************************)
(* C11.  Create on a write-open handle returns the "already open" error    *)
(* and leaves the writer binding as it was; on a handle that is not        *)
(* write-open, in particular directly after a Close, it succeeds and binds *)
(* a writer.  Open does the same with the reader binding.                  *)
(***************************************************************************)
\* this step is a call of op that returned at once
Called(op) == pc = "idle" /\ pc' = "returned" /\ last'.op = op

C11_AlreadyOpen ==
    [][ /\ (Called("Create") /\ t.tw.open)
              => (last'.err = "alreadyOpen" /\ t'.tw = t.tw)
        /\ (Called("Create") /\ ~t.tw.open)
              => (last'.err = "nil" /\ t'.tw.open)
        /\ (Called("Create") /\ prev = "Close") => last'.err = "nil"
        /\ (Called("Open") /\ t.tr.open)
              => (last'.err = "alreadyOpen" /\ t'.tr = t.tr)
        /\ (Called("Open") /\ ~t.tr.open)
              => (last'.err = "nil" /\ t'.tr.open)
        /\ (Called("Open") /\ prev = "Close") => last'.err = "nil" ]_vars

C11_Witness ==
    /\ Returned("Create")
    /\ last.err = "alreadyOpen"
    /\ t.tw.open
    /\ arch[UBuf].eoa = 1

(***************************************************************************)
(* C12.  A format error is fatal whatever ContinueOnError is: the read     *)
(* loop of Unarchive never goes on after the reader reported a malformed   *)
(* header or after an entry of unknown type, and the loop of Walk never    *)
(* goes on after the reader reported a malformed header.                   *)
(***************************************************************************)
\* the type flags untarFile knows
KnownFlags == {"dir", "reg", "char", "block", "fifo", "symlink", "link", "xglobal"}

C12_FormatErrorsFatal ==
    /\ pc = "unarchive" =>
          /\ t.tr.err # "ErrHeader"
          /\ t.tr.pos >= 1 => arch[t.tr.in].ents[t.tr.pos].flag \in KnownFlags
    /\ pc = "walk" => cur.tr.err # "ErrHeader"

(***************************************************************************)
(* C13.  No symbolic link stands in the directory tree whose target,       *)
(* resolved from the link's own directory, lies outside the destination    *)
(* root; and an Unarchive that met a link entry whose target leaves the    *)
(* destination root returned an error.                                     *)
(***************************************************************************)
\* the absolute path a link at absolute path p with target l resolves to
Resolved(p, l) == IF IsRooted(l) THEN Clean(l) ELSE Clean(Dir(p) \o <<Sep>> \o l)

\* an entry of the call's archive that is a link leaving the destination root
Escapes(c, e) ==
    /\ e.flag \in {"symlink", "link"}
    /\ ~WithinClean(Abs(c.dst0), Resolved(Abs(Join(c.dst, e.name)), e.link))

C13_LinksStayInside ==
    /\ \A p \in DOMAIN disk :
          disk[p].kind = "symlink"
          => WithinClean(Abs(Destination), Resolved(p, disk[p].link))
    /\ (Returned("Unarchive") /\ last.visited >= 1)
          => \A i \in 1..last.visited :
                Escapes(last, EntriesOf(last)[i]) => last.err # "nil"

(***************************************************************************)
(* C14.  When Unarchive into an empty destination D has read a hard-link   *)
(* entry named N with link target L, and D/L is a file, then D/N stands in *)
(* the directory tree as a second name of D/L: the same file.              *)
(***************************************************************************)
C14_HardLinkTarget ==
    (Returned("Unarchive") /\ last.fresh /\ last.visited >= 1)
    => \A i \in 1..last.visited :
          ( /\ EntriesOf(last)[i].flag = "link"
            /\ Abs(Join(last.dst, EntriesOf(last)[i].link)) \in DOMAIN disk
            /\ disk[Abs(Join(last.dst, EntriesOf(last)[i].link))].kind = "reg" )
          => /\ Abs(Join(last.dst, EntriesOf(last)[i].name)) \in DOMAIN disk
             /\ disk[Abs(Join(last.dst, EntriesOf(last)[i].name))] =
                   disk[Abs(Join(last.dst, EntriesOf(last)[i].link))]

(***************************************************************************)
(* C15.  After an Archive that returned no error: no entry name is         *)
(* absolute; the entry names are exactly, for each source, the paths of    *)
(* the source and of its descendants taken from the source's base name on  *)
(* (a directory's with a trailing separator), under the wrapping folder    *)
(* when it applies; and a directory's entry comes before the entries       *)
(* named under it.                                                         *)
(***************************************************************************)
\* the wrapping folder of the Archive call c, with its separator
WrapPrefix(c) ==
    IF t.ImplicitTopLevelFolder /\ Cardinality({TopLevel(c.src[k]) : k \in 1..Len(c.src)}) > 1
    THEN BeforeExt(Base(c.dst)) \o <<Sep>>
    ELSE <<>>

\* the name the node at absolute path q is to have when packed from the
\* source at absolute path A
PackedName(A, q) ==
    JoinComps(SubSeq(Components(q), Len(Components(A)), Len(Components(q))))
    \o (IF disk[q].kind = "dir" THEN <<Sep>> ELSE <<>>)

\* the names the Archive call c is to write
PackedNames(c) ==
    UNION { { WrapPrefix(c) \o PackedName(Abs(c.src[k]), q) :
                q \in {r \in DOMAIN disk : WithinClean(Abs(c.src[k]), r)} } :
            k \in 1..Len(c.src) }

C15_EntryNaming ==
    (Returned("Archive") /\ last.err = "nil")
    => /\ \A i \in 1..Len(arch[last.dst].ents) : ~IsRooted(arch[last.dst].ents[i].name)
       /\ {arch[last.dst].ents[i].name : i \in 1..Len(arch[last.dst].ents)}
             = PackedNames(last)
       /\ \A i, j \in 1..Len(arch[last.dst].ents) :
             ( /\ arch[last.dst].ents[i].flag = "dir"
               /\ i # j
               /\ HasPrefix(arch[last.dst].ents[j].name, arch[last.dst].ents[i].name) )
             => i < j

(***************************************************************************)
(* C16.  An Archive that created its destination and met a source path     *)
(* that does not exist: with ContinueOnError on it skips that source,      *)
(* writes the entry of every source that exists and returns no error;      *)
(* with ContinueOnError off it returns an error and writes no entry of a   *)
(* later source.  Without any failing node it returns no error.            *)
(***************************************************************************)
\* the sources of the Archive call c that are not in the directory tree
Missing(c) == {k \in 1..Len(c.src) : Abs(c.src[k]) \notin DOMAIN disk}

\* the archive the call c wrote holds the entry of its k-th source
Packed(c, k) ==
    \E i \in 1..Len(arch[c.dst].ents) :
        HasSuffix(StripTrailing(arch[c.dst].ents[i].name), Base(c.src[k]))

C16_PackContinueOrAbort ==
    (Returned("Archive") /\ Count("tar.NewWriter") = 1)
    => /\ Missing(last) = {} => last.err = "nil"
       /\ (Missing(last) # {} /\ t.ContinueOnError)
             => /\ last.err = "nil"
                /\ \A k \in (1..Len(last.src)) \ Missing(last) : Packed(last, k)
       /\ (Missing(last) # {} /\ ~t.ContinueOnError)
             => /\ last.err # "nil"
                /\ \A k \in 1..Len(last.src) :
                      (\E m \in Missing(last) : m < k) => ~Packed(last, k)

(***************************************************************************)
(* C17.  An Archive or Unarchive call started on a handle that is neither  *)
(* write-open nor read-open returns, with or without an error, with the    *)
(* handle neither write-open nor read-open, every file it opened closed,   *)
(* and the TAR writer or reader closed before the file; and while only     *)
(* calls that work on archive files were made on the handle, none of them  *)
(* returns the "already open" error.                                       *)
(***************************************************************************)
\* how many times event ev stands in the sequence l
CountIn(l, ev) == Cardinality({i \in 1..Len(l) : l[i] = ev})

\* every event of kind a in l is followed by one of kind b
Before(l, a, b) ==
    \A i \in 1..Len(l) : l[i] = a => \E j \in (i + 1)..Len(l) : l[j] = b

\* this step is the return of an Archive or Unarchive call that started on a
\* closed handle (Unarchive reaches its loop only if the reader was unbound)
ReturnsFromClosed ==
    /\ pc \in {"idle", "unarchive"}
    /\ pc' = "returned"
    /\ last'.op \in {"Archive", "Unarchive"}
    /\ ~t.tw.open
    /\ pc = "idle" => ~t.tr.open

C17_ResourcesReleased ==
    [][ /\ ReturnsFromClosed =>
              /\ ~t'.tw.open /\ ~t'.tr.open
              /\ CountIn(log', "os.Create") = CountIn(log', "out.Close")
              /\ CountIn(log', "os.Open") = CountIn(log', "file.Close")
              /\ CountIn(log', "tar.NewWriter") = CountIn(log', "tw.Close")
              /\ CountIn(log', "tar.NewReader") = CountIn(log', "t.Close")
              /\ Before(log', "tw.Close", "out.Close")
              /\ Before(log', "t.Close", "file.Close")
        /\ (pc' = "returned" /\ nops' = nfile') => last'.err # "alreadyOpen" ]_vars

C17_Witness ==
    /\ Returned("Unarchive")
    /\ prev = "Archive"
    /\ last.err = "read"
    /\ last.visited = 3
    /\ ~t.tr.open /\ ~t.tw.open
    /\ CountIn(log, "t.Close") = 1

(***************************************************************************)
(* C18.  Create on the compressed handle returns: the call does not enter  *)
(* itself again, the process does not end in stack exhaustion, and when    *)
(* the call has returned without error the handle is write-open on a       *)
(* gzip-wrapped sink.                                                      *)
(***************************************************************************)
C18_TgzCreateReturns ==
    /\ pc # "crashed"
    /\ pc = "tgzCreate" => cur.depth <= 1
    /\ (Returned("Create") /\ last.h = "targz" /\ last.err = "nil")
          => (t.tw.open /\ t.tw.wrap = "gzip")

(***************************************************************************)
(* C19.  Every Unarchive, Walk or Extract returns after finitely many      *)
(* turns of its loop, whatever ContinueOnError is and whatever the reader  *)
(* reports: the loop is never in a state that its next turn leaves as it   *)
(* is, for such a turn is repeated for ever.                               *)
(***************************************************************************)
\* the turn x of the read loop of Unarchive goes on and changes nothing
UnarchiveTurnIdle(x) ==
    ~x.done /\ x.t = t /\ x.arch = arch /\ x.disk = disk /\ x.cur = cur

\* the turn x of the loop of Walk goes on and changes nothing
WalkTurnIdle(x) == ~x.done /\ x.disk = disk /\ x.cur = cur

C19_TraversalReturns ==
    /\ pc = "unarchive" => ~UnarchiveTurnIdle(UnarchiveLoop(t, arch, disk, cur))
    /\ pc = "walk" =>
          \A res \in VisitorAnswers : ~WalkTurnIdle(WalkLoop(t, arch, disk, cur, res))

(***************************************************************************)
(* C20.  No step of a call made through DefaultTarGz changes the state of  *)
(* DefaultTar: its reader and writer bindings and its wrap functions stay  *)
(* as they were, while the compressed call runs and after it returned.     *)
(***************************************************************************)
\* this step belongs to a call made through the compressed handle
ThroughTarGz ==
    IF pc = "idle"
    THEN pc' # "idle" /\ (cur'.h = "targz" \/ last'.h = "targz")
    ELSE pc # "returned" /\ cur.h = "targz"

C20_DefaultsIndependent == [][ThroughTarGz => t' = t]_vars

====
